---------------------------- MODULE Spec2Model ----------------------------
(***************************************************************************)
(* Model of mixture/core.py: the apply_mixins class decorator and the      *)
(* lazily initialised `field` descriptors (NativeField, DescriptorField)   *)
(* with their type check and validators.                                   *)
(*                                                                         *)
(* Python names are modelled as sequences of one-character strings so that *)
(* `name.startswith('_')`, `"_" + name` and `name[1:]` are computed.       *)
(***************************************************************************)
EXTENDS Integers, Sequences, FiniteSets, TLC

VARIABLES
    ns,          \* class -> its own namespace (cls.__dict__): name -> member
    tag,         \* class -> its own `__from_mixins__` tuple, or NoTag
    registered,  \* {<<mixin, cls>>}: cls was registered as virtual subclass
    native,      \* class -> the names its class body defined (never changes)
    lastApply,   \* the last apply_mixins call: its arguments and what it saw
    phase,       \* class Foo: "body", "made" (field() returned), "live", "failed"
    decl,        \* the arguments the class body passed to field()
    fld,         \* the field object bound to Foo.f
    inst,        \* instance of Foo -> its __dict__: attribute name -> value
    lastOp,      \* the last call on the field: its arguments and its outcome
    barCls,      \* class Bar: attribute name -> field, <<>> until it is defined
    barInst,     \* the __dict__ of an instance of Bar
    lastBar      \* the last operation on that instance, and its __dict__ before

mixinVars == <<ns, tag, registered, native, lastApply>>

fieldVars == <<phase, decl, fld, inst, lastOp>>

pairVars == <<barCls, barInst, lastBar>>

vars == <<ns, tag, registered, native, lastApply, phase, decl, fld, inst, lastOp,
          barCls, barInst, lastBar>>

(***************************************************************************)
(*                       Part 1: apply_mixins                              *)
(***************************************************************************)

\* ---- bounds of the mixin model
MaxMixins == 2        \* longest mixin list passed to apply_mixins

\* ---- names
N_f    == <<"f">>
N_g    == <<"g">>
N_hid  == <<"_", "h">>
N_init == <<"_", "_", "i", "n", "i", "t", "_", "_">>

MemberNames == {N_f, N_g, N_hid, N_init}

\* the order in which a class body defines its members (dict order)
NameOrder == <<N_init, N_f, N_g, N_hid>>

StartsWithUnderscore(n) == Len(n) > 0 /\ n[1] = "_"

\* ---- classes
Mixins  == {"MA", "MB", "MC"}
Targets == {"Base", "D"}
Classes == Mixins \cup Targets

\* class D(Base); every other class derives from object only
BasesOf(c) == IF c = "D" THEN <<"Base">> ELSE <<>>

\* mixins that derive from ABC and so have a `register` method
RegisterableMixins == {"MB"}

NoTag == <<"NoTag">>

\* what each class body may define (the inputs Init draws from) ...
BodyNames(c) ==
    CASE c = "MA"   -> {N_f, N_init}
      [] c = "MB"   -> {N_f, N_g, N_hid}
      [] c = "MC"   -> {N_g, N_init}
      [] c = "D"    -> {N_f}
      [] c = "Base" -> {N_g}

\* ... and what it always defines
FixedNames(c) ==
    CASE c = "MB" -> {N_hid}
      [] c = "MC" -> {N_g, N_init}
      [] OTHER    -> {}

Bodies(c) == {S \in SUBSET BodyNames(c) : FixedNames(c) \subseteq S}

\* the member object that class c's body defines under name n
Member(c, n) == [owner |-> c, name |-> n]

ClassBody(c, S) == [n \in S |-> Member(c, n)]

\* ---- Python dicts with insertion order: a sequence of <<key, value>>
DictKeys(d) == [i \in 1..Len(d) |-> d[i][1]]

DictHas(d, k) == \E i \in 1..Len(d) : d[i][1] = k

DictGet(d, k) == d[CHOOSE i \in 1..Len(d) : d[i][1] = k][2]

\* d[k] = v: an existing key keeps its place, a new key goes last
DictSet(d, k, v) ==
    IF DictHas(d, k)
    THEN [i \in 1..Len(d) |-> IF d[i][1] = k THEN <<k, v>> ELSE d[i]]
    ELSE Append(d, <<k, v>>)

RECURSIVE DictUpdate(_, _)
DictUpdate(d, e) ==
    IF e = <<>> THEN d
    ELSE DictUpdate(DictSet(d, Head(e)[1], Head(e)[2]), Tail(e))

\* cls.__dict__.items() in definition order
RECURSIVE ItemsFrom(_, _)
ItemsFrom(space, order) ==
    IF order = <<>> THEN <<>>
    ELSE IF Head(order) \in DOMAIN space
         THEN <<<<Head(order), space[Head(order)]>>>> \o ItemsFrom(space, Tail(order))
         ELSE ItemsFrom(space, Tail(order))

\* source_cls.__dict__.items(): only mixin classes are iterated, and their
\* namespaces hold what their bodies define, in definition order
DictItems(c) == ItemsFrom(ns[c], NameOrder)

SeqToSet(s) == {s[i] : i \in 1..Len(s)}

\* getattr(cls, '__from_mixins__', ()): own tag, else the first base's
RECURSIVE VisibleTag(_)
VisibleTag(c) ==
    IF tag[c] # NoTag THEN tag[c]
    ELSE IF BasesOf(c) = <<>> THEN NoTag
    ELSE VisibleTag(BasesOf(c)[1])

GetattrTag(c) == IF VisibleTag(c) = NoTag THEN <<>> ELSE VisibleTag(c)

\* a should_copy that also takes the underscore-prefixed names
ShouldCopy_AlsoPrivate(m_name, dest_cls) ==
    \/ m_name \in SeqToSet(GetattrTag(dest_cls))
    \/ m_name \notin DOMAIN ns[dest_cls]

\* a should_copy that lets a name inherited from a base class block the copy
ShouldCopy_InheritedBlocks(m_name, dest_cls) ==
    \/ m_name \in SeqToSet(GetattrTag(dest_cls))
    \/ /\ ~StartsWithUnderscore(m_name)
       /\ m_name \notin DOMAIN ns[dest_cls]
       /\ \A i \in 1..Len(BasesOf(dest_cls)) : m_name \notin DOMAIN ns[BasesOf(dest_cls)[i]]

\* list_all_members_to_copy: should_copy
ShouldCopy(m_name, dest_cls) ==
    \/ m_name \in SeqToSet(GetattrTag(dest_cls))
    \/ (~StartsWithUnderscore(m_name) /\ m_name \notin DOMAIN ns[dest_cls])

RECURSIVE FilterItems(_, _)
FilterItems(items, dest_cls) ==
    IF items = <<>> THEN <<>>
    ELSE IF ShouldCopy(Head(items)[1], dest_cls)
         THEN <<Head(items)>> \o FilterItems(Tail(items), dest_cls)
         ELSE FilterItems(Tail(items), dest_cls)

list_all_members_to_copy(source_cls, dest_cls) ==
    FilterItems(DictItems(source_cls), dest_cls)

Reversed(s) == [i \in 1..Len(s) |-> s[Len(s) + 1 - i]]

\* the loop `for mixin_class in reversed(mixin_classes): to_copy.update(res)`
RECURSIVE GatherToCopy(_, _, _)
GatherToCopy(to_copy, rev_mixins, orig_cls) ==
    IF rev_mixins = <<>> THEN to_copy
    ELSE GatherToCopy(
            DictUpdate(to_copy, list_all_members_to_copy(Head(rev_mixins), orig_cls)),
            Tail(rev_mixins), orig_cls)

ToCopy(mixin_classes, orig_cls) ==
    GatherToCopy(<<>>, Reversed(mixin_classes), orig_cls)

\* a loop that warns for the first mixin with an __init__ only
InitWarnings_Once(rev_mixins) ==
    IF \E i \in 1..Len(rev_mixins) : N_init \in DOMAIN ns[rev_mixins[i]]
    THEN <<rev_mixins[CHOOSE i \in 1..Len(rev_mixins) :
                /\ N_init \in DOMAIN ns[rev_mixins[i]]
                /\ \A j \in 1..(i - 1) : N_init \notin DOMAIN ns[rev_mixins[j]]]>>
    ELSE <<>>

\* the warn(...) calls of the loop, in call order
RECURSIVE InitWarnings(_)
InitWarnings(rev_mixins) ==
    IF rev_mixins = <<>> THEN <<>>
    ELSE IF N_init \in DOMAIN ns[Head(rev_mixins)]
         THEN <<Head(rev_mixins)>> \o InitWarnings(Tail(rev_mixins))
         ELSE InitWarnings(Tail(rev_mixins))

\* `for m_name, member in to_copy.items(): setattr(orig_cls, m_name, member)`
SetMembers(space, to_copy) ==
    [n \in DOMAIN space \cup SeqToSet(DictKeys(to_copy)) |->
        IF DictHas(to_copy, n) THEN DictGet(to_copy, n) ELSE space[n]]

\* issubclass(orig_cls, object): every class of Python 3 is new-style, and in
\* Python 2 every class that derives from object
IsNewStyle(c) == TRUE

\* new-style branch: the class is mutated in place
NewStyleVars(orig_cls, to_copy) == SetMembers(ns[orig_cls], to_copy)

\* old-style branch: copy_cls_vars(orig_cls), then the members are added and
\* a class of the same name and bases is created from them
copy_cls_vars(c) == ns[c]

OldStyleVars(orig_cls, to_copy) == SetMembers(copy_cls_vars(orig_cls), to_copy)

NewTag(to_copy) == DictKeys(to_copy)

\* a register loop that the first AttributeError ends
RECURSIVE RegisterUntilError(_, _)
RegisterUntilError(rev_mixins, out_cls) ==
    IF rev_mixins = <<>> \/ Head(rev_mixins) \notin RegisterableMixins THEN {}
    ELSE {<<Head(rev_mixins), out_cls>>} \cup RegisterUntilError(Tail(rev_mixins), out_cls)

Registrations_UntilError(mixin_classes, out_cls) ==
    RegisterUntilError(Reversed(mixin_classes), out_cls)

\* mixin_class.register(out_cls), AttributeError ignored
Registrations(mixin_classes, out_cls) ==
    {<<m, out_cls>> : m \in SeqToSet(mixin_classes) \cap RegisterableMixins}

\* the argument lists: one to MaxMixins mixin classes, none listed twice
MixinLists ==
    {l \in UNION {[1..k -> Mixins] : k \in 1..MaxMixins} :
        \A i, j \in 1..Len(l) : l[i] = l[j] => i = j}

\* apply_mixins(*mixin_classes)(orig_cls)
ApplyMixins(orig_cls, mixin_classes) ==
    \E to_copy \in {ToCopy(mixin_classes, orig_cls)} :
    /\ ns' = [ns EXCEPT ![orig_cls] =
                IF IsNewStyle(orig_cls) THEN NewStyleVars(orig_cls, to_copy)
                                        ELSE OldStyleVars(orig_cls, to_copy)]
    /\ tag' = [tag EXCEPT ![orig_cls] = NewTag(to_copy)]
    /\ registered' = registered \cup Registrations(mixin_classes, orig_cls)
    /\ lastApply' = [cls      |-> orig_cls,
                     mixins   |-> mixin_classes,
                     hadTag   |-> VisibleTag(orig_cls) # NoTag,
                     ownTag   |-> tag[orig_cls] # NoTag,
                     warnings |-> InitWarnings(Reversed(mixin_classes))]
    /\ UNCHANGED <<native, fieldVars, pairVars>>

NoApply == [cls |-> "none", mixins |-> <<>>, hadTag |-> FALSE, ownTag |-> FALSE,
            warnings |-> <<>>]

MixinClasses ==
    /\ \E a \in Bodies("MA"), b \in Bodies("MB"), c \in Bodies("MC"),
          d \in Bodies("D"), e \in Bodies("Base") :
          ns = [k \in Classes |->
                  ClassBody(k, CASE k = "MA" -> a [] k = "MB" -> b [] k = "MC" -> c
                                 [] k = "D" -> d [] k = "Base" -> e)]
    /\ native = [k \in Classes |-> DOMAIN ns[k]]
    /\ tag = [c \in Classes |-> NoTag]
    /\ registered = {}
    /\ lastApply = NoApply

\* class Base is decorated where it is defined, before class D(Base) exists;
\* D is decorated at its definition and may be decorated again later
DecorateBase(l) ==
    /\ lastApply = NoApply
    /\ ApplyMixins("Base", l)

DecorateD(l) == ApplyMixins("D", l)

NextMixins ==
    \/ \E l \in MixinLists : DecorateBase(l)
    \/ \E l \in MixinLists : DecorateD(l)


(***************************************************************************)
(*                       Part 2: field()                                   *)
(***************************************************************************)

\* ---- Python objects: [k |-> type name, v |-> payload]
\* str: v is the text, one character per element; int: v is its digits;
\* function / class: v is <<its name>>; tuple, list: v is the items;
\* dict: v is the <<key, value>> entries in order
Obj(k, v) == [k |-> k, v |-> v]

PyNone     == Obj("NoneType", <<"None">>)
PyTrue     == Obj("bool", <<"True">>)
PyFalse    == Obj("bool", <<"False">>)
NO_DEFAULT == Obj("sentinel", <<"NO_DEFAULT">>)
Unset      == Obj("sentinel", <<"_unset">>)
ANY_TYPE   == Obj("sentinel", <<"ANY_TYPE">>)

PyStr(chars)  == Obj("str", chars)
PyInt(digits) == Obj("int", digits)
PyFunc(name)  == Obj("function", <<name>>)
PyClass(name) == Obj("type", <<name>>)
PyTuple(xs)   == Obj("tuple", xs)
PyList(xs)    == Obj("list", xs)
PyDict(kvs)   == Obj("dict", kvs)

\* the values written to fields
V_hey   == PyStr(<<"h", "e", "y">>)
V_empty == PyStr(<<>>)
V_one   == PyInt(<<"1">>)
V_made  == PyList(<<>>)        \* what the default factory returns

Values == {V_hey, V_empty, V_one}

\* the builtin types a field may declare
T_str == PyClass("str")

\* value.__class__.__name__, t.__name__
ClassNameOf(value) == value.k

TypeName(t) == t.v[1]

\* isinstance(value, t)
IsInstance(value, t) == ClassNameOf(value) = TypeName(t)

\* isinstance(x, str)
IsStr(x) == x.k = "str"

\* issubclass(x, Exception): TypeError when x is not a class
IsClass(x) == x.k = "type"

ExceptionClasses == {"EmptyFailure"}

IsExceptionClass(x) == IsClass(x) /\ x.v[1] \in ExceptionClasses

\* len(x): defined for str, tuple, list, dict; TypeError otherwise
HasLen(x) == x.k \in {"str", "tuple", "list", "dict"}

PyLen(x) == Len(x.v)

\* iter(x): the items; for a str its characters, each a str of length one
IsIterable(x) == x.k \in {"str", "tuple", "list", "dict"}

PyItems(x) ==
    IF x.k = "str" THEN [i \in 1..Len(x.v) |-> PyStr(<<x.v[i]>>)]
    ELSE IF x.k = "dict" THEN [i \in 1..Len(x.v) |-> x.v[i][1]]
    ELSE x.v

\* ---- validation functions: what the user's callables do
\* non_empty(x):            len(x) > 0, raising on an empty x
\* short2(obj, val):        lambda obj, val: len(val) < 2
\* check3(obj, field, val): asserts val != "" and returns None
\* noargs():                a callable without positional parameters
RuleNames == {"non_empty", "short2", "check3", "noargs"}

\* len(getfullargspec(f)[0])
NbArgs(f) ==
    CASE f = "non_empty" -> 1
      [] f = "short2"    -> 2
      [] f = "check3"    -> 3
      [] OTHER           -> 0

\* the result of calling the user's function on val: a returned object, or
\* Raised when it raises
Raised == Obj("raised", <<"exception">>)

CallRule(f, val) ==
    CASE f = "non_empty" ->
            IF ~HasLen(val) THEN Raised
            ELSE IF PyLen(val) > 0 THEN PyTrue ELSE Raised
      [] f = "short2" ->
            IF ~HasLen(val) THEN Raised
            ELSE IF PyLen(val) < 2 THEN PyTrue ELSE PyFalse
      [] f = "check3" ->
            IF val = V_empty THEN Raised ELSE PyNone
      [] OTHER -> Raised

\* valid8.base.result_is_success
result_is_success(res) == res = PyNone \/ res = PyTrue

\* ---- exceptions: [type |-> class name, info |-> what it carries]
Exc(type, info) == [type |-> type, info |-> info]

NoExc == Exc("none", <<>>)

\* ---- make_validator: a definition -> [f, help_msg, err_type, nb_args], or an
\* exception. validator[0] of a str is its first character, not callable.
IsFunc(x) == x.k = "function"

Rule(f, help_msg, err_type) ==
    [ok |-> TRUE, f |-> f.v[1], help_msg |-> help_msg, err_type |-> err_type,
     nb_args |-> NbArgs(f.v[1]), exc |-> NoExc]

RuleError(type) ==
    [ok |-> FALSE, f |-> "", help_msg |-> PyNone, err_type |-> PyNone,
     nb_args |-> 0, exc |-> Exc(type, <<>>)]

\* lines 756-829: the arity decides how the function will be called
WrapByArity(validation_func, help_msg, err_type) ==
    IF ~IsFunc(validation_func) THEN RuleError("TypeError")   \* getfullargspec
    ELSE IF NbArgs(validation_func.v[1]) = 0 THEN RuleError("ValueError")
    ELSE Rule(validation_func, help_msg, err_type)

make_validator(validator) ==
    IF ~HasLen(validator) THEN WrapByArity(validator, PyNone, PyNone)
    ELSE LET items == PyItems(validator)
             nb_elts == PyLen(validator) IN
         IF nb_elts = 1 THEN WrapByArity(items[1], PyNone, PyNone)
         ELSE IF nb_elts = 2 THEN
              IF IsStr(items[2]) THEN WrapByArity(items[1], items[2], PyNone)
              ELSE WrapByArity(items[1], PyNone, items[2])
         ELSE IF nb_elts = 3 THEN WrapByArity(items[1], items[2], items[3])
         ELSE RuleError("ValueError")

\* _mapping_entry_to_validator: the elements of key and value by their kind,
\* a later element of a kind replacing an earlier one
RECURSIVE SortElements(_, _)
SortElements(vals, acc) ==
    IF vals = <<>> THEN acc
    ELSE LET e == Head(vals) IN
         SortElements(Tail(vals),
            IF IsStr(e) THEN [acc EXCEPT !.err_msg = e]
            ELSE IF IsExceptionClass(e) THEN [acc EXCEPT !.err_type = e]
            ELSE [acc EXCEPT !.callabl = e])

mapping_entry_to_validator(k, v) ==
    LET vals == IF HasLen(v) THEN <<k>> \o PyItems(v) ELSE <<k, v>>
        got  == SortElements(vals, [callabl |-> PyNone, err_msg |-> PyNone,
                                    err_type |-> PyNone])
    IN make_validator(PyTuple(<<got.callabl, got.err_msg, got.err_type>>))

\* make_validators: None, or the rules of the FieldValidator, or an exception
NoValidators == [ok |-> TRUE, none |-> TRUE, rules |-> <<>>, exc |-> NoExc]

RulesOf(made) ==
    IF \E i \in 1..Len(made) : ~made[i].ok
    THEN [ok |-> FALSE, none |-> FALSE, rules |-> <<>>,
          exc |-> made[CHOOSE i \in 1..Len(made) :
                          ~made[i].ok /\ \A j \in 1..(i - 1) : made[j].ok].exc]
    ELSE [ok |-> TRUE, none |-> FALSE, rules |-> made, exc |-> NoExc]

make_validators(validators) ==
    IF validators = PyNone THEN NoValidators
    ELSE IF validators.k = "dict"
         THEN RulesOf([i \in 1..Len(validators.v) |->
                  mapping_entry_to_validator(validators.v[i][1], validators.v[i][2])])
    ELSE IF IsIterable(validators)
         THEN RulesOf([i \in 1..PyLen(validators) |->
                  make_validator(PyItems(validators)[i])])
    ELSE RulesOf(<<make_validator(validators)>>)


\* ---- the class statement `class Foo(object): f = field(...)`
PY36 == TRUE      \* sys.version_info >= (3, 6)

OwnerName == "Foo"

AttrName  == <<"f">>          \* the name the class body binds the field to
OtherName == <<"g">>          \* an explicit name that does not match it

Instances == {"o1", "o2"}

\* obj.__class__.__name__
ClassOfInstance(o) == OwnerName

NoField == [cls |-> "none", default |-> NO_DEFAULT, is_factory |-> FALSE,
            name |-> PyNone, type |-> ANY_TYPE, validators |-> NoValidators]

Built(obj) == [ok |-> TRUE, obj |-> obj, exc |-> NoExc]

Failed(exc) == [ok |-> FALSE, obj |-> NoField, exc |-> exc]

\* a NativeField.__init__ that lets the factory win over the default
NativeField_FactoryWins(default, default_factory, name) ==
    IF ~PY36 /\ name = PyNone
    THEN Failed(Exc("ValueError", <<"name is mandatory">>))
    ELSE Built([cls        |-> "NativeField",
                default    |-> IF default_factory # PyNone THEN default_factory
                                                          ELSE default,
                is_factory |-> default_factory # PyNone,
                name       |-> name,
                type       |-> ANY_TYPE,
                validators |-> NoValidators])

\* NativeField.__init__
NativeField(default, default_factory, name) ==
    IF default_factory # PyNone /\ default # NO_DEFAULT
    THEN Failed(Exc("ValueError", <<"default and default_factory">>))
    ELSE IF ~PY36 /\ name = PyNone
    THEN Failed(Exc("ValueError", <<"name is mandatory">>))
    ELSE Built([cls        |-> "NativeField",
                default    |-> IF default_factory # PyNone THEN default_factory
                                                          ELSE default,
                is_factory |-> default_factory # PyNone,
                name       |-> name,
                type       |-> ANY_TYPE,
                validators |-> NoValidators])

\* DescriptorField.__init__
DescriptorField(type, default, default_factory, validator, name) ==
    IF default_factory # PyNone /\ default # NO_DEFAULT
    THEN Failed(Exc("ValueError", <<"default and default_factory">>))
    ELSE IF ~make_validators(validator).ok
    THEN Failed(make_validators(validator).exc)
    ELSE IF ~PY36 /\ name = PyNone
    THEN Failed(Exc("ValueError", <<"name is mandatory">>))
    ELSE Built([cls        |-> "DescriptorField",
                default    |-> IF default_factory # PyNone THEN default_factory
                                                          ELSE default,
                is_factory |-> default_factory # PyNone,
                name       |-> IF name # PyNone THEN PyStr(<<"_">> \o name.v)
                                                ELSE PyNone,
                type       |-> type,
                validators |-> make_validators(validator)])

\* Python truth value of use_descriptor
Truthy(x) == x = PyTrue

\* field(): lines 374-391
needs_descriptor(a) ==
    IF a.use_descriptor # PyNone /\ ~Truthy(a.use_descriptor)
    THEN FALSE
    ELSE (a.type # ANY_TYPE) \/ (a.validator # PyNone) \/ Truthy(a.use_descriptor)

\* a field() that drops the validator when use_descriptor is False
field_DropsValidator(a) ==
    IF needs_descriptor(a)
    THEN DescriptorField(a.type, a.default, a.default_factory, a.validator, a.name)
    ELSE NativeField(a.default, a.default_factory, a.name)

field(a) ==
    IF a.use_descriptor # PyNone /\ ~Truthy(a.use_descriptor) /\ a.validator # PyNone
    THEN Failed(Exc("UnsupportedOnNativeFieldError", <<>>))
    ELSE IF needs_descriptor(a)
    THEN DescriptorField(a.type, a.default, a.default_factory, a.validator, a.name)
    ELSE NativeField(a.default, a.default_factory, a.name)

\* __set_name__(owner, name) of both classes, called when the class is created
PublicName(f) ==
    IF f.cls = "DescriptorField" THEN PyStr(Tail(f.name.v)) ELSE f.name

set_name(f, name) ==
    IF f.name # PyNone
    THEN IF PublicName(f) # PyStr(name)
         THEN Failed(Exc("ValueError", <<"name does not correspond">>))
         ELSE Built(f)
    ELSE Built([f EXCEPT !.name = IF f.cls = "DescriptorField"
                                   THEN PyStr(<<"_">> \o name)
                                   ELSE PyStr(name)])

\* ---- the arguments the class body may pass to field()
Msg1 == PyStr(<<"m", "s", "g">>)
Msg2 == PyStr(<<"n", "o">>)

ValidatorArgs ==
    { PyNone,
      PyFunc("non_empty"),
      PyList(<<PyFunc("non_empty")>>),
      PyList(<<PyFunc("check3"), PyTuple(<<PyFunc("non_empty"), Msg1>>)>>),
      PyList(<<PyTuple(<<PyFunc("short2"), PyClass("EmptyFailure")>>)>>),
      PyDict(<<<<PyFunc("non_empty"), Msg1>>>>),
      PyDict(<<<<PyFunc("non_empty"), PyTuple(<<Msg1, PyClass("EmptyFailure")>>)>>,
               <<Msg2, PyFunc("check3")>>>>),
      PyTuple(<<PyFunc("non_empty"), Msg1>>),
      PyTuple(<<PyFunc("non_empty"), Msg2, PyClass("EmptyFailure")>>),
      PyFunc("noargs") }

FieldArgs ==
    [type            : {ANY_TYPE, T_str},
     default         : {NO_DEFAULT, V_one},
     default_factory : {PyNone, PyFunc("factory")},
     validator       : ValidatorArgs,
     name            : {PyNone, PyStr(AttrName), PyStr(OtherName)},
     use_descriptor  : {PyNone, PyTrue, PyFalse}]

NoArgs == [type |-> ANY_TYPE, default |-> NO_DEFAULT, default_factory |-> PyNone,
           validator |-> PyNone, name |-> PyNone, use_descriptor |-> PyNone]


\* ---- operations on an instance; d is the instance __dict__
DictWith(d, key, v) == [k \in DOMAIN d \cup {key} |-> IF k = key THEN v ELSE d[k]]

DictWithout(d, key) == [k \in DOMAIN d \ {key} |-> d[k]]

\* what an operation does: returns val or raises exc, leaves the dict d,
\* calls the validation functions `invoked` and the factory `fcalls` times
Returns(val, d, invoked, fcalls) ==
    [out |-> "ok", val |-> val, exc |-> NoExc, dict |-> d,
     invoked |-> invoked, fcalls |-> fcalls]

Raises(exc, d, invoked, fcalls) ==
    [out |-> "raise", val |-> PyNone, exc |-> exc, dict |-> d,
     invoked |-> invoked, fcalls |-> fcalls]

\* self.default() / self.default
CallFactory(f) == V_made

MandatoryFieldInitError(field_name, obj) ==
    Exc("MandatoryFieldInitError", <<field_name, obj>>)

\* a __get__ that hands out the NO_DEFAULT sentinel of a mandatory field
NativeField_get_NoRaise(f, o, d) ==
    IF f.name.v \in DOMAIN d THEN Returns(d[f.name.v], d, <<>>, 0)
    ELSE IF f.is_factory
    THEN Returns(CallFactory(f), DictWith(d, f.name.v, CallFactory(f)), <<>>, 1)
    ELSE Returns(f.default, DictWith(d, f.name.v, f.default), <<>>, 0)

\* a __get__ that hands out the factory's value without storing it
NativeField_get_NoStore(f, o, d) ==
    IF f.name.v \in DOMAIN d THEN Returns(d[f.name.v], d, <<>>, 0)
    ELSE IF f.default = NO_DEFAULT
    THEN Raises(MandatoryFieldInitError(f.name.v, o), d, <<>>, 0)
    ELSE IF f.is_factory
    THEN Returns(CallFactory(f), d, <<>>, 1)
    ELSE Returns(f.default, DictWith(d, f.name.v, f.default), <<>>, 0)

\* NativeField.__get__(obj, objtype): lines 449-470
NativeField_get(f, o, d) ==
    IF f.name.v \in DOMAIN d THEN Returns(d[f.name.v], d, <<>>, 0)
    ELSE IF f.default = NO_DEFAULT
    THEN Raises(MandatoryFieldInitError(f.name.v, o), d, <<>>, 0)
    ELSE IF f.is_factory
    THEN Returns(CallFactory(f), DictWith(d, f.name.v, CallFactory(f)), <<>>, 1)
    ELSE Returns(f.default, DictWith(d, f.name.v, f.default), <<>>, 0)

\* DescriptorField.__get__(obj, objtype): lines 541-558
DescriptorField_get(f, o, d) ==
    IF f.name.v \in DOMAIN d THEN Returns(d[f.name.v], d, <<>>, 0)
    ELSE IF f.default = NO_DEFAULT
    THEN Raises(MandatoryFieldInitError(f.name.v, o), d, <<>>, 0)
    ELSE IF f.is_factory
    THEN Returns(CallFactory(f), DictWith(d, f.name.v, CallFactory(f)), <<>>, 1)
    ELSE Returns(f.default, DictWith(d, f.name.v, f.default), <<>>, 0)

\* str(value), falling back to repr(value) and to an error text
StrRaises(value) == FALSE

ReprRaises(value) == FALSE

ValRepr(value) ==
    IF ~StrRaises(value) THEN value.v
    ELSE IF ~ReprRaises(value) THEN value.v
    ELSE <<"<error while trying to represent object>">>

\* a TypeError message formatted with the storage key instead of its [1:]
TypeErrorOf_StorageKey(f, o, value) ==
    Exc("TypeError", <<ClassOfInstance(o), f.name.v, TypeName(f.type),
                       ClassNameOf(value), ValRepr(value)>>)

\* the TypeError of __set__: the five values its message is formatted with
TypeErrorOf(f, o, value) ==
    Exc("TypeError", <<ClassOfInstance(o), Tail(f.name.v), TypeName(f.type),
                       ClassNameOf(value), ValRepr(value)>>)

\* a call that hands the instance to every function of two or more parameters
\* and never the field
CallOf_NeverField(rule, o, val) ==
    [f     |-> rule.f,
     obj   |-> IF rule.nb_args >= 2 THEN o ELSE "-",
     field |-> "-",
     val   |-> val]

\* one call of the user's function, as make_validator's `validate` makes it
CallOf(rule, o, val) ==
    [f     |-> rule.f,
     obj   |-> IF rule.nb_args >= 2 THEN o ELSE "-",
     field |-> IF rule.nb_args >= 3 THEN "self" ELSE "-",
     val   |-> val]

\* validate(obj, field, val) -> raiser(val): valid8's failure_raiser raises
\* when the function raises or returns neither True nor None
ValidateRaises(rule, val) ==
    CallRule(rule.f, val) = Raised \/ ~result_is_success(CallRule(rule.f, val))

\* and_v_(obj, field, x) of and_with_additional_args: lines 636-650
IsNot(a, b) == a # b

RECURSIVE and_v_(_, _, _, _)
and_v_(rules, o, x, calls) ==
    IF rules = <<>> THEN [raised |-> FALSE, res |-> PyTrue, calls |-> calls]
    ELSE LET validator == Head(rules)
             called    == Append(calls, CallOf(validator, o, x))
             res       == PyNone      \* `validate` returns nothing
         IN IF ValidateRaises(validator, x)
            THEN [raised |-> TRUE, res |-> PyNone, calls |-> called]
            ELSE IF IsNot(res, PyNone) \/ IsNot(res, PyTrue)
            THEN [raised |-> TRUE, res |-> PyNone, calls |-> called]
            ELSE and_v_(Tail(rules), o, x, called)

\* the main function of FieldValidator: lines 633-653
main_function(rules, o, x) ==
    IF Len(rules) = 1
    THEN [raised |-> ValidateRaises(rules[1], x), res |-> PyNone,
          calls |-> <<CallOf(rules[1], o, x)>>]
    ELSE and_v_(rules, o, x, <<>>)

\* FieldValidator.validate -> valid8 Validator.assert_valid(name, value)
ValidationFails(v) == v.raised \/ ~result_is_success(v.res)

\* a __set__ that runs the validators before it checks the type
DescriptorField_set_ValidatorsFirst(f, o, d, value) ==
    LET v == IF f.validators.none
             THEN [raised |-> FALSE, res |-> PyNone, calls |-> <<>>]
             ELSE main_function(f.validators.rules, o, value) IN
    IF ValidationFails(v)
    THEN Raises(Exc("ValidationError", <<Tail(f.name.v), value>>), d, v.calls, 0)
    ELSE IF f.type # ANY_TYPE /\ ~IsInstance(value, f.type)
    THEN Raises(TypeErrorOf(f, o, value), d, v.calls, 0)
    ELSE Returns(PyNone, DictWith(d, f.name.v, value), v.calls, 0)

\* a __set__ that stores the value before it runs the validators
DescriptorField_set_StoreFirst(f, o, d, value) ==
    IF f.type # ANY_TYPE /\ ~IsInstance(value, f.type)
    THEN Raises(TypeErrorOf(f, o, value), d, <<>>, 0)
    ELSE IF ~f.validators.none
    THEN LET v == main_function(f.validators.rules, o, value) IN
         IF ValidationFails(v)
         THEN Raises(Exc("ValidationError", <<Tail(f.name.v), value>>),
                     DictWith(d, f.name.v, value), v.calls, 0)
         ELSE Returns(PyNone, DictWith(d, f.name.v, value), v.calls, 0)
    ELSE Returns(PyNone, DictWith(d, f.name.v, value), <<>>, 0)

\* DescriptorField.__set__(obj, value): lines 560-588
DescriptorField_set(f, o, d, value) ==
    IF f.type # ANY_TYPE /\ ~IsInstance(value, f.type)
    THEN Raises(TypeErrorOf(f, o, value), d, <<>>, 0)
    ELSE IF ~f.validators.none
    THEN LET v == main_function(f.validators.rules, o, value) IN
         IF ValidationFails(v)
         THEN Raises(Exc("ValidationError", <<Tail(f.name.v), value>>), d, v.calls, 0)
         ELSE Returns(PyNone, DictWith(d, f.name.v, value), v.calls, 0)
    ELSE Returns(PyNone, DictWith(d, f.name.v, value), <<>>, 0)

\* a __delete__ that leaves the stored value in place
DescriptorField_delete_Keeps(f, o, d) ==
    IF f.name.v \in DOMAIN d THEN Returns(PyNone, d, <<>>, 0)
    ELSE Raises(Exc("AttributeError", <<f.name.v>>), d, <<>>, 0)

\* DescriptorField.__delete__(obj): delattr(obj, self.name)
DescriptorField_delete(f, o, d) ==
    IF f.name.v \in DOMAIN d THEN Returns(PyNone, DictWithout(d, f.name.v), <<>>, 0)
    ELSE Raises(Exc("AttributeError", <<f.name.v>>), d, <<>>, 0)

\* `obj.f`: a NativeField has no __set__, so the instance __dict__ is looked
\* up first; a DescriptorField is a data descriptor and always gets the call
GetAttr(f, o, d) ==
    IF f.cls = "NativeField"
    THEN IF AttrName \in DOMAIN d THEN Returns(d[AttrName], d, <<>>, 0)
         ELSE NativeField_get(f, o, d)
    ELSE DescriptorField_get(f, o, d)

\* `obj.f = value`
SetAttr(f, o, d, value) ==
    IF f.cls = "NativeField" THEN Returns(PyNone, DictWith(d, AttrName, value), <<>>, 0)
    ELSE DescriptorField_set(f, o, d, value)

\* a `del obj.f` that ignores a field that is not set
DelAttr_Silent(f, o, d) ==
    IF (IF f.cls = "NativeField" THEN AttrName ELSE f.name.v) \in DOMAIN d
    THEN Returns(PyNone, DictWithout(d, IF f.cls = "NativeField" THEN AttrName
                                                                 ELSE f.name.v), <<>>, 0)
    ELSE Returns(PyNone, d, <<>>, 0)

\* `del obj.f`
DelAttr(f, o, d) ==
    IF f.cls = "NativeField"
    THEN IF AttrName \in DOMAIN d THEN Returns(PyNone, DictWithout(d, AttrName), <<>>, 0)
         ELSE Raises(Exc("AttributeError", <<AttrName>>), d, <<>>, 0)
    ELSE DescriptorField_delete(f, o, d)

\* ---- the state of the field on an instance
IsSet(o) == fld.name.v \in DOMAIN inst[o]

Stored(o) == IF IsSet(o) THEN inst[o][fld.name.v] ELSE Unset

Op(op, o, arg, r) ==
    [op |-> op, obj |-> o, arg |-> arg, out |-> r.out, val |-> r.val, exc |-> r.exc,
     old |-> Stored(o), invoked |-> r.invoked, fcalls |-> r.fcalls]

NoOp == [op |-> "none", obj |-> "-", arg |-> PyNone, out |-> "ok", val |-> PyNone,
         exc |-> NoExc, old |-> Unset, invoked |-> <<>>, fcalls |-> 0]

ClassOp(op, r) == [NoOp EXCEPT !.op = op, !.out = IF r.ok THEN "ok" ELSE "raise",
                               !.exc = r.exc]

\* ---- actions
\* the class body runs `f = field(**a)`
CallField(a) ==
    /\ phase = "body"
    /\ \E r \in {field(a)} :
        /\ decl' = a
        /\ fld' = r.obj
        /\ phase' = IF r.ok THEN "made" ELSE "failed"
        /\ lastOp' = ClassOp("field", r)
    /\ UNCHANGED <<inst, mixinVars, pairVars>>

\* the class is created: __set_name__ is called on the field (Python >= 3.6)
CreateClass ==
    /\ phase = "made"
    /\ \E r \in {IF PY36 THEN set_name(fld, AttrName) ELSE Built(fld)} :
        /\ fld' = IF r.ok THEN r.obj ELSE fld
        /\ phase' = IF r.ok THEN "live" ELSE "failed"
        /\ lastOp' = ClassOp("class", r)
    /\ UNCHANGED <<decl, inst, mixinVars, pairVars>>

Read(o) ==
    /\ phase = "live"
    /\ \E r \in {GetAttr(fld, o, inst[o])} :
        /\ inst' = [inst EXCEPT ![o] = r.dict]
        /\ lastOp' = Op("get", o, PyNone, r)
    /\ UNCHANGED <<phase, decl, fld, mixinVars, pairVars>>

Write(o, value) ==
    /\ phase = "live"
    /\ \E r \in {SetAttr(fld, o, inst[o], value)} :
        /\ inst' = [inst EXCEPT ![o] = r.dict]
        /\ lastOp' = Op("set", o, value, r)
    /\ UNCHANGED <<phase, decl, fld, mixinVars, pairVars>>

Delete(o) ==
    /\ phase = "live"
    /\ \E r \in {DelAttr(fld, o, inst[o])} :
        /\ inst' = [inst EXCEPT ![o] = r.dict]
        /\ lastOp' = Op("del", o, PyNone, r)
    /\ UNCHANGED <<phase, decl, fld, mixinVars, pairVars>>

NoClass ==
    /\ phase = "body"
    /\ decl = NoArgs
    /\ fld = NoField
    /\ inst = [o \in Instances |-> <<>>]
    /\ lastOp = NoOp

\* the mixin classes of the tests, for the runs that only exercise fields
TestMixins ==
    /\ ns = [k \in Classes |-> ClassBody(k, FixedNames(k))]
    /\ native = [k \in Classes |-> DOMAIN ns[k]]
    /\ tag = [c \in Classes |-> NoTag]
    /\ registered = {}
    /\ lastApply = NoApply


(***************************************************************************)
(*              Part 3: two fields on one class                            *)
(***************************************************************************)

\* class Bar(object) declares two fields under two of these names
N_x  == <<"x">>
N_ux == <<"_", "x">>
N_y  == <<"y">>

PairNames == {{N_x, N_ux}, {N_x, N_y}, {N_ux, N_y}}

\* the field() calls of the class body: a NativeField or a DescriptorField,
\* mandatory or with a default, without type or validator
PairFieldArgs ==
    {[NoArgs EXCEPT !.default = dflt, !.use_descriptor = u] :
        dflt \in {NO_DEFAULT, V_one}, u \in {PyNone, PyTrue}}

\* `name = field(**a)` in the class body, then __set_name__
DeclareField(a, name) == set_name(field(a).obj, name).obj

BarInstance == "o1"

\* getattr / setattr / delattr on an instance of a class C that binds fields:
\* a DescriptorField bound to the name gets the call; otherwise the instance
\* __dict__ is used, and on a read that misses it a NativeField bound to the
\* name gets the call
RECURSIVE ObjSetattr(_, _, _, _, _)
ObjSetattr(C, name, o, d, value) ==
    IF name \in DOMAIN C /\ C[name].cls = "DescriptorField"
    THEN \* DescriptorField.__set__, its setattr(obj, private_attr_name, value)
         IF DescriptorField_set(C[name], o, d, value).out = "raise"
         THEN DescriptorField_set(C[name], o, d, value)
         ELSE ObjSetattr(C, C[name].name.v, o, d, value)
    ELSE Returns(PyNone, DictWith(d, name, value), <<>>, 0)

RECURSIVE ObjDelattr(_, _, _, _)
ObjDelattr(C, name, o, d) ==
    IF name \in DOMAIN C /\ C[name].cls = "DescriptorField"
    THEN ObjDelattr(C, C[name].name.v, o, d)     \* DescriptorField.__delete__
    ELSE IF name \in DOMAIN d THEN Returns(PyNone, DictWithout(d, name), <<>>, 0)
    ELSE Raises(Exc("AttributeError", <<name>>), d, <<>>, 0)

RECURSIVE ObjGetattr(_, _, _, _)
ObjGetattr(C, name, o, d) ==
    IF name \in DOMAIN C /\ C[name].cls = "DescriptorField"
    THEN \* DescriptorField.__get__: getattr(obj, self.name, _unset) turns an
         \* AttributeError into _unset and lets every other exception through
         LET f == C[name]
             r == ObjGetattr(C, f.name.v, o, d)
         IN IF r.out = "ok" THEN r
            ELSE IF r.exc.type # "AttributeError" THEN r
            ELSE IF f.default = NO_DEFAULT
            THEN Raises(MandatoryFieldInitError(f.name.v, o), r.dict, <<>>, 0)
            ELSE LET value == IF f.is_factory THEN CallFactory(f) ELSE f.default
                     w     == ObjSetattr(C, f.name.v, o, r.dict, value)
                 IN IF w.out = "raise" THEN w
                    ELSE Returns(value, w.dict, <<>>, IF f.is_factory THEN 1 ELSE 0)
    ELSE IF name \in DOMAIN d THEN Returns(d[name], d, <<>>, 0)
    ELSE IF name \in DOMAIN C THEN NativeField_get(C[name], o, d)
    ELSE Raises(Exc("AttributeError", <<name>>), d, <<>>, 0)

BarOp(op, attr, arg, r) ==
    [op |-> op, attr |-> attr, arg |-> arg, out |-> r.out, val |-> r.val,
     exc |-> r.exc, pre |-> barInst]

NoBarOp == [op |-> "none", attr |-> <<>>, arg |-> PyNone, out |-> "ok", val |-> PyNone,
            exc |-> NoExc, pre |-> <<>>]

\* `class Bar(object): <n1> = field(...); <n2> = field(...)`
DefineBar(names, a) ==
    /\ barCls = <<>>
    /\ barCls' = [n \in names |-> DeclareField(a[n], n)]
    /\ UNCHANGED <<barInst, lastBar, mixinVars, fieldVars>>

ReadBar(n) ==
    /\ n \in DOMAIN barCls
    /\ \E r \in {ObjGetattr(barCls, n, BarInstance, barInst)} :
        /\ barInst' = r.dict
        /\ lastBar' = BarOp("get", n, PyNone, r)
    /\ UNCHANGED <<barCls, mixinVars, fieldVars>>

WriteBar(n, value) ==
    /\ n \in DOMAIN barCls
    /\ \E r \in {ObjSetattr(barCls, n, BarInstance, barInst, value)} :
        /\ barInst' = r.dict
        /\ lastBar' = BarOp("set", n, value, r)
    /\ UNCHANGED <<barCls, mixinVars, fieldVars>>

DeleteBar(n) ==
    /\ n \in DOMAIN barCls
    /\ \E r \in {ObjDelattr(barCls, n, BarInstance, barInst)} :
        /\ barInst' = r.dict
        /\ lastBar' = BarOp("del", n, PyNone, r)
    /\ UNCHANGED <<barCls, mixinVars, fieldVars>>

NoPair ==
    /\ barCls = <<>>
    /\ barInst = <<>>
    /\ lastBar = NoBarOp

InitMixins == MixinClasses /\ NoClass /\ NoPair

InitFields == TestMixins /\ NoClass /\ NoPair

InitPair == TestMixins /\ NoClass /\ NoPair

NextPair ==
    \/ \E names \in PairNames : \E a \in [names -> PairFieldArgs] : DefineBar(names, a)
    \/ \E n \in {N_x, N_ux, N_y} : ReadBar(n)
    \/ \E n \in {N_x, N_ux, N_y}, value \in {V_hey, V_one} : WriteBar(n, value)
    \/ \E n \in {N_x, N_ux, N_y} : DeleteBar(n)

SpecPair == InitPair /\ [][NextPair]_vars

NextFields ==
    \/ \E a \in FieldArgs : CallField(a)
    \/ CreateClass
    \/ \E o \in Instances : Read(o)
    \/ \E o \in Instances, value \in Values : Write(o, value)
    \/ \E o \in Instances : Delete(o)

SpecMixins == InitMixins /\ [][NextMixins]_vars

SpecFields == InitFields /\ [][NextFields]_vars

(***************************************************************************)
(*                     Properties of apply_mixins                          *)
(***************************************************************************)

Applied == lastApply.cls # "none"

Public(n) == ~StartsWithUnderscore(n)

\* the listed mixins whose own namespace defines n, as positions of the list
DefinedAt(l, n) == {i \in 1..Len(l) : n \in DOMAIN ns[l[i]]}

LeftMost(l, n) == l[CHOOSE i \in DefinedAt(l, n) : \A j \in DefinedAt(l, n) : i <= j]

PublicNamesOf(l) == {n \in MemberNames : Public(n) /\ DefinedAt(l, n) # {}}

\* C1: after apply_mixins(l)(c), every public name that several listed mixins
\* define and that c does not define natively is bound on c to the member of
\* the left-most listed mixin that defines it.
C1_LeftMostWins ==
    Applied =>
        \A n \in MemberNames :
            (/\ Public(n)
             /\ Cardinality(DefinedAt(lastApply.mixins, n)) >= 2
             /\ n \notin native[lastApply.cls])
            => /\ n \in DOMAIN ns[lastApply.cls]
               /\ ns[lastApply.cls][n] = Member(LeftMost(lastApply.mixins, n), n)

\* C2: after one application to a class that saw no `__from_mixins__` tag, the
\* tag as a set is the public names of the listed mixins minus the names the
\* class defines itself.
C2_TagIsCopiedNames ==
    (Applied /\ ~lastApply.hadTag) =>
        /\ tag[lastApply.cls] # NoTag
        /\ SeqToSet(tag[lastApply.cls])
             = PublicNamesOf(lastApply.mixins) \ native[lastApply.cls]
        /\ \A n \in SeqToSet(tag[lastApply.cls]) :
             ns[lastApply.cls][n] = Member(LeftMost(lastApply.mixins, n), n)

C2_Witness ==
    /\ Applied /\ ~lastApply.hadTag /\ lastApply.cls = "D"
    /\ Len(lastApply.mixins) = 2
    /\ N_hid \in DOMAIN ns[lastApply.mixins[1]]
    /\ native["D"] = {N_f}
    /\ SeqToSet(tag["D"]) = {N_g}
    /\ N_f \in PublicNamesOf(lastApply.mixins)

\* the names c finds on its base classes only
InheritedOnly(c) ==
    {n \in MemberNames : n \notin native[c] /\
        \E i \in 1..Len(BasesOf(c)) : n \in DOMAIN ns[BasesOf(c)[i]]}

\* C3: applied to a class that saw no tag, a public mixin member is not copied
\* over a member the class defines itself, and is copied when the class only
\* inherits the name from a base class.
C3_OwnKeptInheritedCopied ==
    (Applied /\ ~lastApply.hadTag) =>
        \A n \in PublicNamesOf(lastApply.mixins) :
            /\ n \in native[lastApply.cls]
                 => ns[lastApply.cls][n] = Member(lastApply.cls, n)
            /\ n \in InheritedOnly(lastApply.cls)
                 => /\ n \in DOMAIN ns[lastApply.cls]
                    /\ ns[lastApply.cls][n] = Member(LeftMost(lastApply.mixins, n), n)

C3_Witness ==
    /\ Applied /\ ~lastApply.hadTag /\ lastApply.cls = "D"
    /\ {N_f, N_g} \subseteq PublicNamesOf(lastApply.mixins)
    /\ N_f \in native["D"]
    /\ N_g \in InheritedOnly("D")
    /\ ns["D"][N_f].owner = "D"
    /\ ns["D"][N_g].owner \in Mixins


\* how many times x occurs in the sequence s
Count(s, x) == Cardinality({i \in 1..Len(s) : s[i] = x})

\* the members of c that an application copied from a mixin
CopiedOnto(c) == {n \in DOMAIN ns[c] : ns[c][n].owner \in Mixins}

\* C14: apply_mixins warns exactly once for each listed mixin whose own
\* namespace defines __init__ and for no other class, and the application
\* completes with the members copied and the tag set.
C14_OneWarningPerInit ==
    Applied =>
        /\ \A m \in Mixins :
             Count(lastApply.warnings, m)
               = IF m \in SeqToSet(lastApply.mixins) /\ N_init \in native[m] THEN 1 ELSE 0
        /\ Len(lastApply.warnings) <= Len(lastApply.mixins)
        /\ tag[lastApply.cls] # NoTag
        /\ SeqToSet(tag[lastApply.cls]) \subseteq CopiedOnto(lastApply.cls)

C14_Witness ==
    /\ Applied
    /\ Len(lastApply.warnings) = 2
    /\ lastApply.mixins = <<"MA", "MC">>
    /\ {N_f, N_g} \subseteq DOMAIN ns[lastApply.cls]
    /\ ns[lastApply.cls][N_f].owner = "MA"
    /\ ns[lastApply.cls][N_g].owner = "MC"

\* C15: after apply_mixins the class is registered with every listed mixin
\* that has a `register` method, and no class is ever registered with a mixin
\* that has none; such a mixin stops neither the copy nor the registration
\* with the other listed mixins.
C15_RegisteredWithAbcMixins ==
    /\ \A r \in registered : r[1] \in RegisterableMixins
    /\ Applied =>
         /\ \A m \in SeqToSet(lastApply.mixins) :
              m \in RegisterableMixins <=> <<m, lastApply.cls>> \in registered
         /\ tag[lastApply.cls] # NoTag
         /\ SeqToSet(tag[lastApply.cls]) \subseteq CopiedOnto(lastApply.cls)

C15_Witness ==
    /\ Applied
    /\ lastApply.mixins = <<"MB", "MA">>
    /\ <<"MB", lastApply.cls>> \in registered
    /\ <<"MA", lastApply.cls>> \notin registered
    /\ N_f \in DOMAIN ns[lastApply.cls]
    /\ ns[lastApply.cls][N_f].owner = "MB"

\* C18: after any sequence of applications to a class, its tag lists every
\* member of the class that an application copied onto it from a mixin.
C18_TagListsAllCopied ==
    \A c \in Targets :
        CopiedOnto(c) # {} =>
            /\ tag[c] # NoTag
            /\ CopiedOnto(c) \subseteq SeqToSet(tag[c])


\* C21: apply_mixins applied to a class that has no tag of its own overwrites
\* no member the class body defined, also when a base class carries a tag
\* that lists the member's name.
C21_NativeMembersKept ==
    (Applied /\ ~lastApply.ownTag) =>
        \A n \in native[lastApply.cls] :
            ns[lastApply.cls][n] = Member(lastApply.cls, n)


(***************************************************************************)
(*                     Properties of field()                               *)
(***************************************************************************)

Live == phase = "live"

Did(op) == Live /\ lastOp.op = op

\* the field has rules: a validator argument was given to field()
HasRules == fld.cls = "DescriptorField" /\ ~fld.validators.none

\* the user's function of a rule accepts val: it returns True or None
Accepts(rule, val) == result_is_success(CallRule(rule.f, val))

AllAccept(val) == \A i \in 1..Len(fld.validators.rules) : Accepts(fld.validators.rules[i], val)

\* val passes the type check the class body asked for, if it asked for one
TypeOk(val) == decl.type = ANY_TYPE \/ IsInstance(val, decl.type)

\* what `o.f` evaluates to in the current state
ReadNow(o) == GetAttr(fld, o, inst[o])

ReadsBack(o, val) == ReadNow(o).out = "ok" /\ ReadNow(o).val = val

\* the (field, instance) state is what it was before the last operation
StateKept == Stored(lastOp.obj) = lastOp.old

\* the default the class body asked for
HasDefault == decl.default # NO_DEFAULT \/ decl.default_factory # PyNone

DeclaredDefault == IF decl.default_factory # PyNone THEN V_made ELSE decl.default

\* C4: on a field with one or several validator rules, writing a value that
\* every rule accepts (and that has the declared type) raises nothing, and the
\* field then reads back the written value.
C4_AcceptedWriteIsStored ==
    (Did("set") /\ HasRules /\ AllAccept(lastOp.arg) /\ TypeOk(lastOp.arg))
        => /\ lastOp.out = "ok"
           /\ ReadsBack(lastOp.obj, lastOp.arg)

\* C5: on a field with validator rules, writing a value that some rule rejects
\* raises, with a ValidationError whenever the value got past the type check,
\* and the field of that instance stays unset or keeps its previous value.
C5_RejectedWriteRaises ==
    (Did("set") /\ HasRules /\ ~AllAccept(lastOp.arg))
        => /\ lastOp.out = "raise"
           /\ TypeOk(lastOp.arg) => lastOp.exc.type = "ValidationError"
           /\ StateKept
           /\ lastOp.old = Unset => ~IsSet(lastOp.obj)

C5_Witness ==
    /\ Did("set") /\ HasRules /\ ~AllAccept(lastOp.arg)
    /\ Len(fld.validators.rules) = 1
    /\ lastOp.exc.type = "ValidationError"
    /\ lastOp.old = V_hey
    /\ Stored(lastOp.obj) = V_hey
    /\ lastOp.invoked # <<>>

C7_TypeOrValidatorGivesDescriptor ==
    (phase \in {"made", "live"} /\ (decl.type # ANY_TYPE \/ decl.validator # PyNone))
        => /\ fld.cls = "DescriptorField"
           /\ (Did("set") /\ ~TypeOk(lastOp.arg)) => lastOp.out = "raise"

\* C8: on a field with a default or a default factory, of either class, a read
\* of an unset field (never written, or deleted) returns the default; after a
\* write the field reads back the written value; after a delete the next read
\* returns the default again.
C8_DefaultRoundTrip ==
    (Live /\ HasDefault)
        => /\ (lastOp.op = "get" /\ lastOp.old = Unset)
              => /\ lastOp.out = "ok"
                 /\ lastOp.val = DeclaredDefault
                 /\ ReadsBack(lastOp.obj, DeclaredDefault)
           /\ (lastOp.op = "set" /\ lastOp.out = "ok")
              => ReadsBack(lastOp.obj, lastOp.arg)
           /\ (lastOp.op = "del" /\ lastOp.out = "ok")
              => ReadsBack(lastOp.obj, DeclaredDefault)

C8_Witness ==
    /\ Did("del") /\ lastOp.out = "ok"
    /\ fld.cls = "DescriptorField"
    /\ decl.default_factory # PyNone
    /\ lastOp.old = V_hey
    /\ ~IsSet(lastOp.obj)
    /\ \E o \in Instances : Stored(o) = V_made

\* C9: on a field with neither default nor factory, of either class, a read of
\* an unset field raises MandatoryFieldInitError and leaves it unset, so that
\* a further read raises again; after a write the field reads back the value.
C9_MandatoryRead ==
    (Live /\ ~HasDefault)
        => /\ (lastOp.op = "get" /\ lastOp.old = Unset)
              => /\ lastOp.out = "raise"
                 /\ lastOp.exc.type = "MandatoryFieldInitError"
                 /\ ~IsSet(lastOp.obj)
                 /\ ReadNow(lastOp.obj).out = "raise"
                 /\ ReadNow(lastOp.obj).exc.type = "MandatoryFieldInitError"
           /\ (lastOp.op = "set" /\ lastOp.out = "ok")
              => ReadsBack(lastOp.obj, lastOp.arg)
           /\ \A o \in Instances : ~IsSet(o) => ReadNow(o).out = "raise"

C9_Witness ==
    /\ Did("get") /\ ~HasDefault
    /\ fld.cls = "NativeField"
    /\ lastOp.exc.type = "MandatoryFieldInitError"
    /\ ~IsSet(lastOp.obj)
    /\ \E o \in Instances : Stored(o) = V_one

\* C10: the MandatoryFieldInitError of a read carries the name the field is
\* declared under in its class and the instance that was read, for a
\* NativeField and for a DescriptorField.
C10_ErrorCarriesDeclaredName ==
    (Did("get") /\ lastOp.exc.type = "MandatoryFieldInitError")
        => lastOp.exc.info = <<AttrName, lastOp.obj>>

EntryElements(entry) ==
    IF entry[2].k = "tuple" THEN <<entry[1]>> \o entry[2].v ELSE <<entry[1], entry[2]>>

\* the callable, the message and the error type among the elements, or None
CallableOf(elts) ==
    IF \E i \in 1..Len(elts) : IsFunc(elts[i])
    THEN elts[CHOOSE i \in 1..Len(elts) : IsFunc(elts[i])] ELSE PyNone

MessageOf(elts) ==
    IF \E i \in 1..Len(elts) : IsStr(elts[i])
    THEN elts[CHOOSE i \in 1..Len(elts) : IsStr(elts[i])] ELSE PyNone

ErrorTypeOf(elts) ==
    IF \E i \in 1..Len(elts) : IsExceptionClass(elts[i])
    THEN elts[CHOOSE i \in 1..Len(elts) : IsExceptionClass(elts[i])] ELSE PyNone

\* the rule of the tuple (callable, message, error type) of the same elements
TupleRuleOf(entry) ==
    make_validator(PyTuple(<<CallableOf(EntryElements(entry)),
                             MessageOf(EntryElements(entry)),
                             ErrorTypeOf(EntryElements(entry))>>))

\* C12: every entry of a validator mapping gives the rule that the tuple of
\* its callable, its message and its error type gives; the message of the
\* rule is the whole text of the entry.
C12_MappingEntryAsTuple ==
    (phase \in {"made", "live"} /\ decl.validator.k = "dict")
        => /\ Len(fld.validators.rules) = Len(decl.validator.v)
           /\ \A i \in 1..Len(decl.validator.v) :
                /\ fld.validators.rules[i] = TupleRuleOf(decl.validator.v[i])
                /\ fld.validators.rules[i].help_msg
                     = MessageOf(EntryElements(decl.validator.v[i]))

\* the call a function of that many declared parameters must get
ExpectedCall(f, o, val) ==
    [f     |-> f,
     obj   |-> IF NbArgs(f) = 1 THEN "-" ELSE o,
     field |-> IF NbArgs(f) = 3 THEN "self" ELSE "-",
     val   |-> val]

\* C13: on a write of v to the field of o, a function of one parameter is
\* called as f(v), of two as f(o, v), of three as f(o, field, v), each at
\* most once and in the order of the rules; a function without positional
\* parameters makes field() raise ValueError.
C13_CalledByArity ==
    /\ Did("set")
         => /\ Len(lastOp.invoked) <= Len(fld.validators.rules)
            /\ \A i \in 1..Len(lastOp.invoked) :
                 lastOp.invoked[i]
                     = ExpectedCall(fld.validators.rules[i].f, lastOp.obj, lastOp.arg)
            /\ (HasRules /\ TypeOk(lastOp.arg)) => lastOp.invoked # <<>>
    /\ (decl.validator = PyFunc("noargs") /\ decl.use_descriptor # PyFalse)
         => /\ phase = "failed"
            /\ lastOp.op = "field"
            /\ lastOp.exc.type = "ValueError"
            /\ fld = NoField

C13_Witness ==
    /\ Did("set")
    /\ Len(lastOp.invoked) = 1
    /\ lastOp.invoked[1].field = "self"
    /\ lastOp.invoked[1].obj = "o2"
    /\ lastOp.invoked[1].val = V_hey

FieldCalled == phase # "body"

BothDefaults == decl.default # NO_DEFAULT /\ decl.default_factory # PyNone

\* the class body asked for a validator and for use_descriptor=False
ValidatorOnNative == decl.validator # PyNone /\ decl.use_descriptor = PyFalse

\* C16: field() called with a validator and use_descriptor=False raises
\* UnsupportedOnNativeFieldError and makes no field, whatever its other
\* arguments are.
C16_ValidatorOnNativeRaises ==
    (FieldCalled /\ ValidatorOnNative)
        => /\ phase = "failed"
           /\ lastOp.op = "field"
           /\ lastOp.out = "raise"
           /\ lastOp.exc.type = "UnsupportedOnNativeFieldError"
           /\ fld = NoField

C16_Witness ==
    /\ FieldCalled /\ ValidatorOnNative
    /\ BothDefaults
    /\ decl.validator = PyFunc("noargs")
    /\ decl.type = T_str
    /\ lastOp.exc.type = "UnsupportedOnNativeFieldError"

\* C17: a field given a default and a default factory is not made, the
\* constructor of either class raising ValueError; given one of them it is
\* optional (a read of the unset field returns), given neither it is
\* mandatory (the read raises MandatoryFieldInitError).
C17_DefaultOrFactory ==
    /\ (FieldCalled /\ BothDefaults /\ ~ValidatorOnNative)
         => /\ phase = "failed"
            /\ lastOp.op = "field"
            /\ lastOp.exc = Exc("ValueError", <<"default and default_factory">>)
            /\ fld = NoField
    /\ Live
         => /\ ~BothDefaults
            /\ fld.is_factory <=> decl.default_factory # PyNone
            /\ \A o \in Instances : ~IsSet(o) =>
                 IF HasDefault
                 THEN ReadsBack(o, DeclaredDefault)
                 ELSE /\ ReadNow(o).out = "raise"
                      /\ ReadNow(o).exc.type = "MandatoryFieldInitError"

C17_Witness ==
    /\ FieldCalled /\ BothDefaults /\ ~ValidatorOnNative
    /\ decl.type = ANY_TYPE /\ decl.validator = PyNone
    /\ decl.use_descriptor = PyFalse
    /\ lastOp.exc.type = "ValueError"

\* C19: a write to a field with a type and validator rules checks the type,
\* then runs the validators, then stores: no validation function is called
\* when the type check fails, and the value is stored only when the type check
\* and every rule, each called once, have passed.
C19_TypeThenValidatorsThenStore ==
    (Did("set") /\ HasRules /\ decl.type # ANY_TYPE)
        => /\ ~TypeOk(lastOp.arg)
              => /\ lastOp.invoked = <<>>
                 /\ lastOp.exc.type = "TypeError"
                 /\ StateKept
           /\ lastOp.out = "ok"
              => /\ TypeOk(lastOp.arg)
                 /\ AllAccept(lastOp.arg)
                 /\ Len(lastOp.invoked) = Len(fld.validators.rules)
                 /\ Stored(lastOp.obj) = lastOp.arg
           /\ lastOp.out = "raise" => StateKept

C19_Witness ==
    /\ Did("set") /\ HasRules /\ decl.type = T_str
    /\ lastOp.arg = V_one
    /\ lastOp.invoked = <<>>
    /\ lastOp.exc.type = "TypeError"
    /\ \E o \in Instances : Stored(o) = V_hey

\* C20: a validator definition given to field() as a tuple, not wrapped in a
\* list, makes a field with exactly one rule, the one make_validator gives for
\* that tuple.
C20_DirectTupleIsOneRule ==
    (FieldCalled /\ decl.validator.k = "tuple" /\ ~ValidatorOnNative /\ ~BothDefaults)
        => /\ fld.cls = "DescriptorField"
           /\ make_validator(decl.validator).ok
           /\ fld.validators.rules = <<make_validator(decl.validator)>>

\* C22: on a DescriptorField declared with a type, every value a read
\* returns is an instance of the type, the default and the value of the
\* default factory included.
C22_ReadsAreOfDeclaredType ==
    (Did("get") /\ fld.cls = "DescriptorField" /\ decl.type # ANY_TYPE
        /\ lastOp.out = "ok")
        => IsInstance(lastOp.val, decl.type)

\* C23: the default factory is called by a read of an unset field, once, and
\* by nothing else: the read stores what the factory returned, so that later
\* reads return the stored value without a call, and a write leaves the
\* factory uncalled until a delete.
C23_FactoryCalledOncePerUnsetRead ==
    Live =>
        /\ lastOp.fcalls
             = IF lastOp.op = "get" /\ lastOp.old = Unset /\ decl.default_factory # PyNone
               THEN 1 ELSE 0
        /\ (lastOp.op = "get" /\ lastOp.out = "ok")
             => /\ Stored(lastOp.obj) = lastOp.val
                /\ lastOp.old # Unset => lastOp.val = lastOp.old
                /\ ReadNow(lastOp.obj).fcalls = 0
                /\ ReadsBack(lastOp.obj, lastOp.val)
        /\ (lastOp.op = "set" /\ lastOp.out = "ok")
             => ReadNow(lastOp.obj).fcalls = 0
        /\ \A o \in Instances : ReadNow(o).fcalls = 1 =>
             ~IsSet(o) /\ decl.default_factory # PyNone

C23_Witness ==
    /\ Did("get") /\ decl.default_factory # PyNone
    /\ fld.cls = "NativeField"
    /\ lastOp.fcalls = 1
    /\ lastOp.val = V_made
    /\ \E o \in Instances : Stored(o) = V_hey


(***************************************************************************)
(*                Properties of two fields on one class                    *)
(***************************************************************************)

\* what reading attribute n of the instance gives when its __dict__ is d
ReadOf(n, d) ==
    [out |-> ObjGetattr(barCls, n, BarInstance, d).out,
     val |-> ObjGetattr(barCls, n, BarInstance, d).val,
     exc |-> ObjGetattr(barCls, n, BarInstance, d).exc.type]

\* the field bound to n is set on the instance: its storage key is there
IsSetIn(n, d) == barCls[n].name.v \in DOMAIN d

\* C24: a read, write or delete on one of two fields of a class, whatever
\* their names and classes, changes neither whether the other field is set
\* on the instance nor what a read of it gives.
C24_FieldsAreIndependent ==
    lastBar.op # "none" =>
        \A n \in DOMAIN barCls \ {lastBar.attr} :
            /\ IsSetIn(n, barInst) <=> IsSetIn(n, lastBar.pre)
            /\ ReadOf(n, barInst) = ReadOf(n, lastBar.pre)

=============================================================================
